---- MODULE Spec2Model ----
(***************************************************************************)
(* Flarion Universal Ping Tester CLI: the server directory                 *)
(* (Classes/Server.py), the reachability probe (Server.ping) and the       *)
(* platform identifier (Classes/OperatingSystem.py).                       *)
(*                                                                         *)
(* Python text on which the code computes (lower(), sorted(), split(),     *)
(* int(), strip(), decode()) is a sequence of code points; text the code   *)
(* only compares for equality or prints (names, addresses, os.name,        *)
(* exception class names) is a TLA+ string.                                *)
(***************************************************************************)
EXTENDS Integers, Sequences, FiniteSets, TLC

VARIABLES
    file,        \* content of Data/<json_file>, as open()/json.load() find it
    dirCall,     \* the last call on the directory: operation, argument, outcome
    server,      \* the Server object the caller probes: name, ip_address
    osName,      \* os.name of the host
    pingCall,    \* the last Server.ping() call and its outcome
    pings,       \* number of ping() calls made so far
    spawned,     \* number of external ping processes launched so far
    host,        \* what platform.version() and the cached release report
    osObj,       \* the OperatingSystem instance, once constructed
    kernelCall,  \* the last get_kernel_version() call and its outcome
    app          \* PingTesterApp.run(): not called yet, or how the call went

vars == <<file, dirCall, server, osName, pingCall, pings, spawned, host, osObj, kernelCall, app>>

dirVars == <<file, dirCall>>
probeVars == <<server, osName, pingCall, pings, spawned>>
platformVars == <<host, osObj, kernelCall>>

\* ------------------------------------------------------------------------
\* Bounds of the model
\* ------------------------------------------------------------------------

\* largest number of entries in the registry's "datacenter" mapping
MaxEntries == 2

\* largest number of ping() calls in one behaviour
MaxPings == 2

\* largest number of answers (lines, Ctrl-C, end of input) the user gives to
\* one run of the application
MaxInputs == 2

\* ------------------------------------------------------------------------
\* Python values
\* ------------------------------------------------------------------------

\* Python's None (the default of Server.__init__'s arguments)
None == "<None>"

\* the result of a call that returned v, having printed the lines out
Return(v, out) == [exc |-> "none", val |-> v, out |-> out]

\* the result of a call that ended by raising the exception class e
Raise(e, out) == [exc |-> e, val |-> None, out |-> out]

\* dict.get(key, default)
DictGet(d, key, default) == IF key \in DOMAIN d THEN d[key] ELSE default

\* str.lower() on ASCII text: A..Z (65..90) move to a..z (97..122)
Lower(s) == [i \in 1..Len(s) |-> IF s[i] \in 65..90 THEN s[i] + 32 ELSE s[i]]

\* Python's str ordering (<): lexicographic by code point, a proper prefix first
StrLess(a, b) ==
    \E k \in 1..Len(b) :
        /\ \A j \in 1..(k - 1) : j <= Len(a) /\ a[j] = b[j]
        /\ \/ k = Len(a) + 1
           \/ k <= Len(a) /\ a[k] < b[k]

\* sorted(S) for a set of str: ascending, smallest first
RECURSIVE Sorted(_)
Sorted(S) ==
    IF S = {} THEN <<>>
    ELSE LET m == CHOOSE x \in S : \A y \in S : y = x \/ StrLess(x, y)
         IN <<m>> \o Sorted(S \ {m})

\* ------------------------------------------------------------------------
\* Text the directory's code and its inputs mention
\* ------------------------------------------------------------------------

\* ""
StrEmpty == <<>>
\* "Unknown"
StrUnknown == <<85, 110, 107, 110, 111, 119, 110>>
\* "Germany"
StrGermany == <<71, 101, 114, 109, 97, 110, 121>>
\* "germany"
StrGermanyLower == <<103, 101, 114, 109, 97, 110, 121>>
\* "GERMANY"
StrGermanyUpper == <<71, 69, 82, 77, 65, 78, 89>>
\* "United"
StrUnited == <<85, 110, 105, 116, 101, 100>>
\* "United States"
StrUnitedStates == <<85, 110, 105, 116, 101, 100, 32, 83, 116, 97, 116, 101, 115>>
\* "Italy"
StrItaly == <<73, 116, 97, 108, 121>>

\* ------------------------------------------------------------------------
\* The registry file: what Data/<json_file> can hold
\* ------------------------------------------------------------------------

\* names and addresses of the registry's entries, by position in the mapping
Names == <<"A1", "B1", "C1", "D1">>
Ips == <<"1.2.3.4", "5.6.7.8", "9.10.11.12", "13.14.15.16">>

\* country values an entry can store (the key may also be absent)
Countries == {StrEmpty, StrUnknown, StrGermany, StrGermanyLower, StrUnitedStates}

\* the entry at position i: a JSON object with name and ip, name only or ip
\* only, each with or without a country
EntriesAt(i) ==
    LET bare == {[name |-> Names[i], ip |-> Ips[i]], [name |-> Names[i]], [ip |-> Ips[i]]}
        withCountry ==
            {[name |-> Names[i], ip |-> Ips[i], country |-> c] : c \in Countries}
            \cup {[name |-> Names[i], country |-> c] : c \in Countries}
            \cup {[ip |-> Ips[i], country |-> c] : c \in Countries}
    IN bare \cup withCountry

\* the "datacenter" mappings of at most MaxEntries entries, as the sequence of
\* their values in iteration order
Datacenters ==
    UNION {{d \in [1..n -> UNION {EntriesAt(i) : i \in 1..n}] :
              \A i \in 1..n : d[i] \in EntriesAt(i)} : n \in 0..MaxEntries}

\* what the file can be: absent, not JSON, a JSON array, a JSON object with a
\* "datacenter" mapping, a JSON object with another key only
FileContents ==
    {[kind |-> "missing"], [kind |-> "garbage"],
     [kind |-> "json", json |-> [type |-> "array"]],
     [kind |-> "json", json |-> [type |-> "object", dict |-> [servers |-> <<>>]]]}
    \cup {[kind |-> "json", json |-> [type |-> "object", dict |-> [datacenter |-> d]]] :
            d \in Datacenters}

\* the countries a caller asks for
Queries ==
    {StrEmpty, StrUnknown, StrGermany, StrGermanyLower, StrGermanyUpper,
     StrUnited, StrUnitedStates, StrItaly}

\* ------------------------------------------------------------------------
\* Classes/Server.py: the directory
\* ------------------------------------------------------------------------

\* Server(name, ip_address)
Server(name, ip_address) == [name |-> name, ip_address |-> ip_address]

\* load_data_from_json with the missing file read as an empty document
load_data_from_json_swallow(content) ==
    IF content.kind = "missing" THEN Return([type |-> "object", dict |-> [servers |-> <<>>]], <<>>)
    ELSE IF content.kind = "garbage" THEN Raise("JSONDecodeError", <<>>)
    ELSE Return(content.json, <<>>)

\* load_data_from_json: open() raises FileNotFoundError, json.load() raises
\* JSONDecodeError, any JSON document is returned as parsed
load_data_from_json(content) ==
    IF content.kind = "missing" THEN Raise("FileNotFoundError", <<>>)
    ELSE IF content.kind = "garbage" THEN Raise("JSONDecodeError", <<>>)
    ELSE Return(content.json, <<>>)

\* data.get("datacenter", {}).values(), for data a dict
datacenter_values(data) == DictGet(data.dict, "datacenter", <<>>)

\* the country of an entry without the `or "Unknown"`
country_of_no_or(server_data) == DictGet(server_data, "country", StrUnknown)

\* server_data.get("country", "Unknown") or "Unknown"
country_of(server_data) ==
    LET c == DictGet(server_data, "country", StrUnknown)
    IN IF c = StrEmpty THEN StrUnknown ELSE c

\* the set comprehension with the countries lower-cased before the dedup
country_set_casefold(values) == {Lower(country_of(values[i])) : i \in 1..Len(values)}

\* the set comprehension of get_countries
country_set(values) == {country_of(values[i]) : i \in 1..Len(values)}

\* get_countries: every Exception is caught, reported and answered with []
get_countries(content) ==
    LET loaded == load_data_from_json(content)
    IN IF loaded.exc # "none"
       THEN Return(<<>>, <<"Error reading countries">>)
       ELSE IF loaded.val.type # "object"
       THEN Return(<<>>, <<"Error reading countries">>)   \* AttributeError: no .get
       ELSE Return(Sorted(country_set(datacenter_values(loaded.val))), <<>>)

\* the test of the loop with the case kept
country_matches_case_sensitive(server_data, country) ==
    DictGet(server_data, "country", StrEmpty) = country

\* server_data.get("country", "").lower() == country.lower()
country_matches(server_data, country) ==
    Lower(DictGet(server_data, "country", StrEmpty)) = Lower(country)

\* the Server built for a matching entry
server_of(server_data) ==
    Server(DictGet(server_data, "name", "Unknown"), DictGet(server_data, "ip", "0.0.0.0"))

\* the loop of get_servers_by_country: one Server per matching entry, in order
RECURSIVE matching_servers(_, _)
matching_servers(values, country) ==
    IF values = <<>> THEN <<>>
    ELSE (IF country_matches(Head(values), country)
          THEN <<server_of(Head(values))>> ELSE <<>>)
         \o matching_servers(Tail(values), country)

\* get_servers_by_country: every Exception is caught, reported and answered with []
get_servers_by_country(content, country) ==
    LET loaded == load_data_from_json(content)
    IN IF loaded.exc # "none"
       THEN Return(<<>>, <<"Error reading servers">>)
       ELSE IF loaded.val.type # "object"
       THEN Return(<<>>, <<"Error reading servers">>)   \* AttributeError: no .get
       ELSE Return(matching_servers(datacenter_values(loaded.val), country), <<>>)

\* ------------------------------------------------------------------------
\* The directory as a state machine: a caller's calls on one registry file
\* ------------------------------------------------------------------------

NoCall == [op |-> "none", arg |-> StrEmpty, exc |-> "none", val |-> None, out |-> <<>>]

Called(op, arg, r) == [op |-> op, arg |-> arg, exc |-> r.exc, val |-> r.val, out |-> r.out]

CallLoadData ==
    /\ dirCall' = Called("load_data_from_json", StrEmpty, load_data_from_json(file))
    /\ UNCHANGED <<file, probeVars, platformVars, app>>

CallGetCountries ==
    /\ dirCall' = Called("get_countries", StrEmpty, get_countries(file))
    /\ UNCHANGED <<file, probeVars, platformVars, app>>

CallGetServersByCountry ==
    \E country \in Queries :
        /\ dirCall' = Called("get_servers_by_country", country,
                             get_servers_by_country(file, country))
        /\ UNCHANGED <<file, probeVars, platformVars, app>>

\* ------------------------------------------------------------------------
\* The external process a subprocess call starts
\* ------------------------------------------------------------------------

\* a process as the host runs it: whether the utility can be started
\* (launch), whether Ctrl-C arrives while the caller waits (interrupt), how
\* long it would run (seconds), the exit code and the bytes on stdout
Process(launch, interrupt, seconds, returncode, stdout) ==
    [launch |-> launch, interrupt |-> interrupt, seconds |-> seconds,
     returncode |-> returncode, stdout |-> stdout]

\* Python's `except Exception` catches every class but the BaseException-only
\* ones
IsException(e) == e \notin {"none", "KeyboardInterrupt", "SystemExit"}

\* subprocess.run(command, capture_output=True, timeout=timeout): the utility
\* that cannot be started raises the OSError subclass, a wait longer than
\* timeout raises TimeoutExpired, otherwise a CompletedProcess is returned
subprocess_run(proc, timeout) ==
    IF proc.launch # "ok" THEN Raise(proc.launch, <<>>)
    ELSE IF proc.interrupt THEN Raise("KeyboardInterrupt", <<>>)
    ELSE IF proc.seconds > timeout THEN Raise("TimeoutExpired", <<>>)
    ELSE Return([returncode |-> proc.returncode, stdout |-> proc.stdout], <<>>)

\* ------------------------------------------------------------------------
\* Classes/Server.py: the probe
\* ------------------------------------------------------------------------

\* timeout=30 of the subprocess.run call, in seconds
PingTimeout == 30

\* what ping() hands back: the exception it ends with or the bool it returns,
\* the lines printed, the command built (<<>> when none was) and whether an
\* external process was started (1) or not (0)
PingResult(exc, val, out, command, launched) ==
    [exc |-> exc, val |-> val, out |-> out, command |-> command, launched |-> launched]

\* _build_ping_command with every other family treated like POSIX
build_ping_command_fallback(self, os_name) ==
    IF os_name = "nt" THEN Return(<<"ping", "-n", "6", self.ip_address>>, <<>>)
    ELSE Return(<<"ping", "-c", "6", self.ip_address>>, <<>>)

\* _build_ping_command
build_ping_command(self, os_name) ==
    IF os_name = "posix" THEN Return(<<"ping", "-c", "6", self.ip_address>>, <<>>)
    ELSE IF os_name = "nt" THEN Return(<<"ping", "-n", "6", self.ip_address>>, <<>>)
    ELSE Raise("NotImplementedError", <<>>)

\* the except clauses of ping(): TimeoutExpired, then Exception; whatever is
\* neither leaves ping() as raised
ping_except(e, command, launched) ==
    IF e = "TimeoutExpired" THEN PingResult("none", FALSE, <<"Ping timeout">>, command, launched)
    ELSE IF IsException(e) THEN PingResult("none", FALSE, <<"Error pinging">>, command, launched)
    ELSE PingResult(e, None, <<>>, command, launched)

\* whether the external process was started
Launched(proc) == IF proc.launch = "ok" THEN 1 ELSE 0

\* the try block with the exit code not looked at
ping_try_any_exit(self, os_name, proc) ==
    LET built == build_ping_command(self, os_name)
    IN IF built.exc # "none" THEN ping_except(built.exc, <<>>, 0)
       ELSE LET ran == subprocess_run(proc, PingTimeout)
            IN IF ran.exc # "none" THEN ping_except(ran.exc, built.val, Launched(proc))
               ELSE PingResult("none", TRUE, <<"stdout">>, built.val, 1)

\* the try block of ping(): build the command, run it, look at the exit code
ping_try(self, os_name, proc) ==
    LET built == build_ping_command(self, os_name)
    IN IF built.exc # "none" THEN ping_except(built.exc, <<>>, 0)
       ELSE LET ran == subprocess_run(proc, PingTimeout)
            IN IF ran.exc # "none" THEN ping_except(ran.exc, built.val, Launched(proc))
               ELSE IF ran.val.returncode = 0
               THEN PingResult("none", TRUE, <<"stdout">>, built.val, 1)
               ELSE PingResult("none", FALSE, <<"stdout", "Ping failed">>, built.val, 1)

\* ping() without the test for the sentinel addresses
ping_no_sentinel_check(self, os_name, proc) ==
    IF self.ip_address = None \/ self.ip_address = ""
    THEN PingResult("none", FALSE, <<"No IP address configured">>, <<>>, 0)
    ELSE ping_try(self, os_name, proc)

\* Server.ping
ping(self, os_name, proc) ==
    IF self.ip_address = None \/ self.ip_address = ""
    THEN PingResult("none", FALSE, <<"No IP address configured">>, <<>>, 0)
    ELSE IF self.ip_address = "undefined" \/ self.ip_address = "0.0.0.0"
    THEN PingResult("none", FALSE, <<"IP address is undefined">>, <<>>, 0)
    ELSE ping_try(self, os_name, proc)

\* ------------------------------------------------------------------------
\* The probe as a state machine: a caller pings the servers it holds
\* ------------------------------------------------------------------------

\* os.name: the two families the code knows and one it does not
OsNames == {"posix", "nt", "java"}

\* the Server objects a caller can hold: Server(), servers of the registry
\* with a sentinel or a real address
Servers ==
    {Server(None, None), Server("A1", ""), Server("A1", "undefined"),
     Server("Unknown", "0.0.0.0"), Server("A1", "1.2.3.4"), Server("B1", "10.0.0.1")}

\* the ways the ping utility can go: exit 0, exit 1 or 2 in time, exit 0 too
\* late, not found, not executable, interrupted by Ctrl-C
PingProcesses ==
    {Process("ok", FALSE, 5, 0, <<>>), Process("ok", FALSE, 5, 1, <<>>),
     Process("ok", FALSE, 5, 2, <<>>), Process("ok", FALSE, 31, 0, <<>>),
     Process("FileNotFoundError", FALSE, 0, 0, <<>>),
     Process("PermissionError", FALSE, 0, 0, <<>>),
     Process("ok", TRUE, 5, 0, <<>>)}

NoPing ==
    [op |-> "none", self |-> Server(None, None), proc |-> Process("ok", FALSE, 0, 0, <<>>),
     exc |-> "none", val |-> None, out |-> <<>>, command |-> <<>>, launched |-> 0]

Pinged(self, proc, r) ==
    [op |-> "ping", self |-> self, proc |-> proc, exc |-> r.exc, val |-> r.val,
     out |-> r.out, command |-> r.command, launched |-> r.launched]

\* the caller calls server.ping(); the host decides how the process goes
CallPing ==
    /\ pings < MaxPings
    /\ \E proc \in PingProcesses :
           LET r == ping(server, osName, proc)
           IN /\ pingCall' = Pinged(server, proc, r)
              /\ spawned' = spawned + r.launched
    /\ pings' = pings + 1
    /\ UNCHANGED <<server, osName, dirVars, platformVars, app>>

\* the caller picks another server
SelectServer ==
    /\ \E s \in Servers \ {server} : server' = s
    /\ UNCHANGED <<osName, pingCall, pings, spawned, dirVars, platformVars, app>>

\* ------------------------------------------------------------------------
\* Text the platform identifier's code and its inputs mention
\* ------------------------------------------------------------------------

\* "Unknown Linux"
StrUnknownLinux == <<85, 110, 107, 110, 111, 119, 110, 32, 76, 105, 110, 117, 120>>
\* "Windows"
StrWindows == <<87, 105, 110, 100, 111, 119, 115>>
\* "Windows 11 (Build "
StrWindows11Build == <<87, 105, 110, 100, 111, 119, 115, 32, 49, 49, 32, 40, 66, 117, 105, 108, 100, 32>>
\* "Windows 10 (Build "
StrWindows10Build == <<87, 105, 110, 100, 111, 119, 115, 32, 49, 48, 32, 40, 66, 117, 105, 108, 100, 32>>
\* ")"
StrCloseParen == <<41>>

\* platform.version() strings: "10.0.22000", "10.0.22631", "10.0.21999",
\* "10.0.19045", "10.0.abc", "10.0." and ""
Versions ==
    {<<49, 48, 46, 48, 46, 50, 50, 48, 48, 48>>, <<49, 48, 46, 48, 46, 50, 50, 54, 51, 49>>,
     <<49, 48, 46, 48, 46, 50, 49, 57, 57, 57>>, <<49, 48, 46, 48, 46, 49, 57, 48, 52, 53>>,
     <<49, 48, 46, 48, 46, 97, 98, 99>>, <<49, 48, 46, 48, 46>>, <<>>}

\* the release os.uname()/platform.release() report: "5.15.0-91-generic", "10"
Releases ==
    {<<53, 46, 49, 53, 46, 48, 45, 57, 49, 45, 103, 101, 110, 101, 114, 105, 99>>, <<49, 48>>}

\* stdout of `lsb_release -i -s`: b"Ubuntu\n"
BytesUbuntu == <<85, 98, 117, 110, 116, 117, 10>>
\* stdout of `uname -r`: b"6.1.0-13-amd64\n"
BytesKernel == <<54, 46, 49, 46, 48, 45, 49, 51, 45, 97, 109, 100, 54, 52, 10>>
\* stdout that is not UTF-8: b"\xff\n"
BytesUndecodable == <<255, 10>>

\* ------------------------------------------------------------------------
\* Python text operations of the platform identifier
\* ------------------------------------------------------------------------

\* bytes.decode(): UTF-8; the bytes 0xF8..0xFF occur in no UTF-8 text, the
\* bytes below 0x80 are the code points themselves
bytes_decode(b) ==
    IF \E i \in 1..Len(b) : b[i] >= 248 THEN Raise("UnicodeDecodeError", <<>>)
    ELSE Return(b, <<>>)

\* the white space str.strip() removes
IsSpace(c) == c \in 9..13 \/ c = 32

\* str.strip()
RECURSIVE Strip(_)
Strip(s) ==
    IF s = <<>> THEN s
    ELSE IF IsSpace(s[1]) THEN Strip(Tail(s))
    ELSE IF IsSpace(s[Len(s)]) THEN Strip(SubSeq(s, 1, Len(s) - 1))
    ELSE s

\* version.split(".")[-1]: what follows the last "." (the whole text when
\* there is none)
LastComponent(s) ==
    LET dots == {i \in 1..Len(s) : s[i] = 46}
    IN IF dots = {} THEN s
       ELSE SubSeq(s, (CHOOSE i \in dots : \A j \in dots : j <= i) + 1, Len(s))

\* the value of a text of decimal digits
RECURSIVE DigitsValue(_)
DigitsValue(s) ==
    IF s = <<>> THEN 0
    ELSE DigitsValue(SubSeq(s, 1, Len(s) - 1)) * 10 + (s[Len(s)] - 48)

\* int(s) for a text without sign, blanks or underscores: its value when it
\* is one or more decimal digits, ValueError otherwise
py_int(s) ==
    IF s # <<>> /\ \A i \in 1..Len(s) : s[i] \in 48..57
    THEN Return(DigitsValue(s), <<>>)
    ELSE Raise("ValueError", <<>>)

\* str(n) for n >= 0, as the f-string formats the build number
RECURSIVE Digits(_)
Digits(n) == IF n < 10 THEN <<48 + n>> ELSE Digits(n \div 10) \o <<48 + (n % 10)>>

\* ------------------------------------------------------------------------
\* Classes/OperatingSystem.py
\* ------------------------------------------------------------------------

\* timeout=5 of the check_output calls, in seconds
HelperTimeout == 5

\* the build number from which the release is Windows 11
Windows11Build == 22000

\* subprocess.check_output(command, timeout=timeout): as subprocess.run, and
\* a nonzero exit code raises CalledProcessError; returns the stdout bytes
check_output(proc, timeout) ==
    LET ran == subprocess_run(proc, timeout)
    IN IF ran.exc # "none" THEN ran
       ELSE IF ran.val.returncode # 0 THEN Raise("CalledProcessError", <<>>)
       ELSE Return(ran.val.stdout, <<>>)

\* the classes of `except (CalledProcessError, FileNotFoundError, TimeoutExpired)`
HelperCaught == {"CalledProcessError", "FileNotFoundError", "TimeoutExpired"}

\* result.decode().strip() of a check_output call, inside its try
helper_output(proc) ==
    LET got == check_output(proc, HelperTimeout)
    IN IF got.exc # "none" THEN got
       ELSE LET text == bytes_decode(got.val)
            IN IF text.exc # "none" THEN text ELSE Return(Strip(text.val), <<>>)

\* _get_linux_distro
get_linux_distro(proc) ==
    LET r == helper_output(proc)
    IN IF r.exc \in HelperCaught THEN Return(StrUnknownLinux, <<>>) ELSE r

\* _extract_build_number: 0 when int() raises ValueError
extract_build_number(version) ==
    LET n == py_int(LastComponent(version))
    IN IF n.exc \in {"ValueError", "IndexError"} THEN Return(0, <<>>) ELSE n

\* _get_windows_info: every Exception of the try block yields "Windows"
get_windows_info(version) ==
    LET build_number == extract_build_number(version)
    IN IF IsException(build_number.exc) THEN Return(StrWindows, <<>>)
       ELSE IF build_number.exc # "none" THEN build_number
       ELSE IF build_number.val >= Windows11Build
       THEN Return(StrWindows11Build \o Digits(build_number.val) \o StrCloseParen, <<>>)
       ELSE Return(StrWindows10Build \o Digits(build_number.val) \o StrCloseParen, <<>>)

\* _get_distribution_info
get_distribution_info(name, version, proc) ==
    IF name = "posix" THEN get_linux_distro(proc)
    ELSE IF name = "nt" THEN get_windows_info(version)
    ELSE Return(StrUnknown, <<>>)

\* _get_system_info: os.uname() or the stand-in object, each with .release
get_system_info(name, release) == [release |-> release]

\* OperatingSystem(): name, info, distro; an exception of a helper leaves the
\* constructor
OperatingSystem(name, h, proc) ==
    LET distro == get_distribution_info(name, h.version, proc)
    IN IF distro.exc # "none" THEN distro
       ELSE Return([name |-> name, info |-> get_system_info(name, h.release),
                    distro |-> distro.val], <<>>)

\* get_kernel_version
get_kernel_version(self, version, proc) ==
    IF self.name = "posix"
    THEN LET r == helper_output(proc)
         IN IF r.exc \in HelperCaught THEN Return(self.info.release, <<>>) ELSE r
    ELSE IF self.name = "nt" THEN get_windows_info(version)
    ELSE Return(StrUnknown, <<>>)

\* ------------------------------------------------------------------------
\* The platform identifier as a state machine: construction, then queries
\* ------------------------------------------------------------------------

\* the ways a helper utility can go: its output, undecodable output, exit 1,
\* too slow, not found, not executable
HelperProcesses(stdout) ==
    {Process("ok", FALSE, 1, 0, stdout), Process("ok", FALSE, 1, 0, BytesUndecodable),
     Process("ok", FALSE, 1, 1, <<>>), Process("ok", FALSE, 6, 0, stdout),
     Process("FileNotFoundError", FALSE, 0, 0, <<>>),
     Process("PermissionError", FALSE, 0, 0, <<>>)}

Hosts == [version : Versions, release : Releases]

NoObject == [state |-> "none", proc |-> Process("ok", FALSE, 0, 0, <<>>), exc |-> "none", self |-> None]

NoKernelCall == [op |-> "none", proc |-> Process("ok", FALSE, 0, 0, <<>>), exc |-> "none", val |-> StrEmpty]

\* the entry point builds the OperatingSystem instance
Construct ==
    /\ osObj.state = "none"
    /\ \E proc \in HelperProcesses(BytesUbuntu) :
           LET r == OperatingSystem(osName, host, proc)
           IN osObj' = [state |-> IF r.exc = "none" THEN "constructed" ELSE "raised",
                        proc |-> proc, exc |-> r.exc, self |-> r.val]
    /\ UNCHANGED <<host, kernelCall, osName, server, pingCall, pings, spawned, dirVars, app>>

\* a caller asks the instance for the kernel version
CallGetKernelVersion ==
    /\ osObj.state = "constructed"
    /\ \E proc \in HelperProcesses(BytesKernel) :
           LET r == get_kernel_version(osObj.self, host.version, proc)
           IN kernelCall' = [op |-> "get_kernel_version", proc |-> proc, exc |-> r.exc,
                             val |-> IF r.exc = "none" THEN r.val ELSE StrEmpty]
    /\ UNCHANGED <<host, osObj, osName, server, pingCall, pings, spawned, dirVars, app>>

\* ------------------------------------------------------------------------
\* main.py: the user at the console
\* ------------------------------------------------------------------------

\* "1", "2", "3", "4", "datacenter", "game", "custom", "exit", "back"
StrOne == <<49>>
StrTwo == <<50>>
StrThree == <<51>>
StrFour == <<52>>
StrDatacenter == <<100, 97, 116, 97, 99, 101, 110, 116, 101, 114>>
StrGame == <<103, 97, 109, 101>>
StrCustom == <<99, 117, 115, 116, 111, 109>>
StrExit == <<101, 120, 105, 116>>
StrBack == <<98, 97, 99, 107>>

\* what the user does at an input() prompt: type a line, press Ctrl-C, or
\* close the input
TypedLine(text) == [kind |-> "line", text |-> text]
CtrlC == [kind |-> "KeyboardInterrupt", text |-> <<>>]
EndOfInput == [kind |-> "EOFError", text |-> <<>>]

\* the answers of the model: "1", "2", "4", "Exit", "x", "back", Ctrl-C, end
\* of input
Answers ==
    {TypedLine(StrOne), TypedLine(StrTwo), TypedLine(StrFour),
     TypedLine(<<69, 120, 105, 116>>), TypedLine(<<120>>), TypedLine(StrBack),
     CtrlC, EndOfInput}

\* what the user does during one run: at most MaxInputs answers, after which
\* the user leaves the prompt unanswered
Scripts == UNION {[1..n -> Answers] : n \in 0..MaxInputs}

\* how a step that reads the console went: it returned ("ok"), it raised exc
\* ("raise"), or it waits at a prompt the user never answers ("wait"); rest
\* is what the user has still to do
Step(status, exc, val, rest) == [status |-> status, exc |-> exc, val |-> val, rest |-> rest]

\* input(prompt)
py_input(script) ==
    IF script = <<>> THEN Step("wait", "none", <<>>, <<>>)
    ELSE IF Head(script).kind = "line" THEN Step("ok", "none", Head(script).text, Tail(script))
    ELSE Step("raise", Head(script).kind, <<>>, Tail(script))

\* ------------------------------------------------------------------------
\* main.py: PingTesterApp
\* ------------------------------------------------------------------------

\* the keyword parameters OperatingSystem.display_system_info declares
display_system_info_params == {}

\* the keyword arguments initialize() passes to display_system_info
initialize_kwargs == {"locale"}

\* display_system_info called with the keyword arguments kwargs: a keyword
\* the method does not declare is a TypeError of the call; the body prints
\* the family, get_kernel_version() and the distribution
display_system_info(self, kwargs, version, proc) ==
    IF ~(kwargs \subseteq display_system_info_params) THEN Raise("TypeError", <<>>)
    ELSE LET kernel_info == get_kernel_version(self, version, proc)
         IN IF kernel_info.exc # "none" THEN kernel_info
            ELSE Return(None, <<"System Information:", "Operating System Family",
                                "Kernel", "Distribution">>)

\* initialize: clear_console, display_system_info(locale=self.locale), sleep
initialize(os_info, version, proc) ==
    display_system_info(os_info, initialize_kwargs, version, proc)

\* handle_game_menu, handle_custom_menu and every "press enter" pause: print,
\* then input()
press_enter(script) == py_input(script)

\* handle_server_selection
handle_server_selection(country, content, os_name, script, proc) ==
    LET servers == get_servers_by_country(content, country).val
    IN IF servers = <<>> THEN press_enter(script)
       ELSE LET server_choice == py_input(script)
            IN IF server_choice.status # "ok" THEN server_choice
               ELSE IF Lower(server_choice.val) = StrBack
               THEN Step("ok", "none", <<>>, server_choice.rest)
               ELSE LET n == py_int(server_choice.val)
                    IN IF n.exc # "none"    \* except ValueError: invalid_input
                       THEN Step("ok", "none", <<>>, server_choice.rest)
                       ELSE IF 0 <= n.val - 1 /\ n.val - 1 < Len(servers)
                       THEN LET pinged == ping(servers[n.val], os_name, proc)
                            IN IF pinged.exc # "none"
                               THEN Step("raise", pinged.exc, <<>>, server_choice.rest)
                               ELSE press_enter(server_choice.rest)
                       ELSE Step("ok", "none", <<>>, server_choice.rest)

\* handle_datacenter_menu
handle_datacenter_menu(content, os_name, script, proc) ==
    LET countries == get_countries(content).val
    IN IF countries = <<>> THEN press_enter(script)
       ELSE LET country_choice == py_input(script)
            IN IF country_choice.status # "ok" THEN country_choice
               ELSE LET n == py_int(country_choice.val)
                    IN IF n.exc # "none"    \* except ValueError: invalid_input
                       THEN press_enter(country_choice.rest)
                       ELSE IF 0 <= n.val - 1 /\ n.val - 1 < Len(countries)
                       THEN handle_server_selection(countries[n.val], content, os_name,
                                                    country_choice.rest, proc)
                       ELSE press_enter(country_choice.rest)

\* the body of the try block of run(): display_main_menu, input().lower() and
\* the handler of the choice; val says whether the loop breaks
run_try(content, os_name, script, proc) ==
    LET choice == py_input(script)
    IN IF choice.status # "ok" THEN choice
       ELSE IF Lower(choice.val) \in {StrOne, StrDatacenter}
       THEN [handle_datacenter_menu(content, os_name, choice.rest, proc) EXCEPT !.val = FALSE]
       ELSE IF Lower(choice.val) \in {StrTwo, StrGame}
       THEN [press_enter(choice.rest) EXCEPT !.val = FALSE]
       ELSE IF Lower(choice.val) \in {StrThree, StrCustom}
       THEN [press_enter(choice.rest) EXCEPT !.val = FALSE]
       ELSE IF Lower(choice.val) \in {StrFour, StrExit}
       THEN Step("ok", "none", TRUE, choice.rest)     \* handle_exit(); break
       ELSE Step("ok", "none", FALSE, choice.rest)    \* invalid_choice

\* how run() went: it has not been called ("main"), it waits at a prompt
\* ("waiting"), it returned ("returned") or an exception left it ("raised",
\* exc); the number of times the main menu was shown, handle_exit was called
\* and an unexpected error was reported; what ended the loop
Run(pc, exc, menus, exits, reported, endedBy) ==
    [pc |-> pc, exc |-> exc, menus |-> menus, exits |-> exits, reported |-> reported,
     endedBy |-> endedBy]

NoRun == Run("main", "none", 0, 0, 0, "none")

\* the while loop of run()
RECURSIVE run_loop(_, _, _, _, _, _)
run_loop(content, os_name, script, proc, menus, reported) ==
    LET step == run_try(content, os_name, script, proc)
    IN IF step.status = "wait" THEN Run("waiting", "none", menus + 1, 0, reported, "none")
       ELSE IF step.status = "ok"
       THEN IF step.val
            THEN Run("returned", "none", menus + 1, 1, reported, "exit")
            ELSE run_loop(content, os_name, step.rest, proc, menus + 1, reported)
       ELSE IF step.exc = "KeyboardInterrupt"    \* handle_exit(); break
       THEN Run("returned", "none", menus + 1, 1, reported, "KeyboardInterrupt")
       ELSE IF IsException(step.exc)             \* unexpected_error
       THEN run_loop(content, os_name, step.rest, proc, menus + 1, reported + 1)
       ELSE Run("raised", step.exc, menus + 1, 0, reported, "none")

\* run: initialize() outside the try block, then the loop
run(os_info, content, os_name, version, script, kernel_proc, ping_proc) ==
    LET started == initialize(os_info, version, kernel_proc)
    IN IF started.exc # "none" THEN Run("raised", started.exc, 0, 0, 0, "none")
       ELSE run_loop(content, os_name, script, ping_proc, 0, 0)

\* ------------------------------------------------------------------------
\* The application as a state machine: main() builds the app, then runs it
\* ------------------------------------------------------------------------

\* the registry files of the application's runs: none, and one with a server
\* in "Germany" and a server without address and country
AppFiles ==
    {[kind |-> "missing"],
     [kind |-> "json",
      json |-> [type |-> "object",
                dict |-> [datacenter |->
                    <<[name |-> "A1", ip |-> "1.2.3.4", country |-> StrGermany],
                      [name |-> "B1"]>>]]]}

\* main() calls app.run(); the user and the host decide how it goes
CallRun ==
    /\ osObj.state = "constructed"
    /\ app.pc = "main"
    /\ \E script \in Scripts, kernel_proc \in HelperProcesses(BytesKernel),
          ping_proc \in PingProcesses :
           app' = run(osObj.self, file, osName, host.version, script, kernel_proc, ping_proc)
    /\ UNCHANGED <<dirVars, probeVars, platformVars>>

\* ------------------------------------------------------------------------
\* Specifications
\* ------------------------------------------------------------------------

\* the variables a specification does not use stay as they start
DirIdle == file = [kind |-> "missing"] /\ dirCall = NoCall
AppIdle == app = NoRun
ProbeIdle == server = Server(None, None) /\ pingCall = NoPing /\ pings = 0 /\ spawned = 0
PlatformIdle == host \in {h \in Hosts : h.version = <<>> /\ h.release = <<49, 48>>}
                /\ osObj = NoObject /\ kernelCall = NoKernelCall

\* the directory: any registry file, then the caller's queries
InitDirectory ==
    /\ file \in FileContents
    /\ dirCall = NoCall
    /\ osName = "posix"
    /\ ProbeIdle
    /\ PlatformIdle
    /\ AppIdle

NextDirectory == CallLoadData \/ CallGetCountries \/ CallGetServersByCountry

SpecDirectory == InitDirectory /\ [][NextDirectory]_vars

\* the probe: any host family, any server, then pings
InitProbe ==
    /\ osName \in OsNames
    /\ server \in Servers
    /\ pingCall = NoPing
    /\ pings = 0
    /\ spawned = 0
    /\ DirIdle
    /\ PlatformIdle
    /\ AppIdle

NextProbe == CallPing \/ SelectServer

SpecProbe == InitProbe /\ [][NextProbe]_vars

\* the platform identifier: any host, construction, then kernel queries
InitPlatform ==
    /\ osName \in OsNames
    /\ host \in Hosts
    /\ osObj = NoObject
    /\ kernelCall = NoKernelCall
    /\ DirIdle
    /\ ProbeIdle
    /\ AppIdle

NextPlatform == Construct \/ CallGetKernelVersion

SpecPlatform == InitPlatform /\ [][NextPlatform]_vars

\* the application: any host and registry, main() constructs, then runs
InitApp ==
    /\ osName \in OsNames
    /\ host \in Hosts
    /\ osObj = NoObject
    /\ kernelCall = NoKernelCall
    /\ file \in AppFiles
    /\ dirCall = NoCall
    /\ ProbeIdle
    /\ AppIdle

NextApp == Construct \/ CallRun

SpecApp == InitApp /\ [][NextApp]_vars

Init == InitDirectory \/ InitProbe \/ InitPlatform \/ InitApp

Next == NextDirectory \/ NextProbe \/ NextPlatform \/ NextApp

Spec == Init /\ [][Next]_vars

\* ------------------------------------------------------------------------
\* Vocabulary of the properties
\* ------------------------------------------------------------------------

\* the elements of a sequence
Range(s) == {s[i] : i \in 1..Len(s)}

\* the file holds a JSON object with a "datacenter" mapping
ExpectedStructure(f) ==
    f.kind = "json" /\ f.json.type = "object" /\ "datacenter" \in DOMAIN f.json.dict

\* the entries of the registry in the file, in iteration order
Entries(f) == IF ExpectedStructure(f) THEN f.json.dict.datacenter ELSE <<>>

\* the entry has no country: the key is absent or its value is ""
MissingCountry(e) == "country" \notin DOMAIN e \/ e.country = StrEmpty

IsLetter(c) == c \in 65..90 \/ c \in 97..122

\* the two texts are equal up to the case of their letters
SameIgnoringCase(a, b) ==
    /\ Len(a) = Len(b)
    /\ \A i \in 1..Len(a) :
           \/ a[i] = b[i]
           \/ IsLetter(a[i]) /\ IsLetter(b[i]) /\ (a[i] = b[i] + 32 \/ b[i] = a[i] + 32)

\* the Server made from the entry at position i is among res: every entry
\* carries the name or the address of its position
Returned(i, res) ==
    \E k \in 1..Len(res) : res[k].name = Names[i] \/ res[k].ip_address = Ips[i]

\* the position of the entry a returned Server was made from
PositionOf(srv) ==
    CHOOSE i \in 1..Len(Names) : srv.name = Names[i] \/ srv.ip_address = Ips[i]

\* ------------------------------------------------------------------------
\* Properties of the directory (SpecDirectory)
\* ------------------------------------------------------------------------

\* C1: serversInCountry matches against the normalized country: asked for
\* "Unknown" it returns every entry whose country is missing or empty, and
\* every country listCountries returns yields at least one Server on the same
\* registry.
C1_UnknownBucketIsServed ==
    dirCall.op = "get_servers_by_country" =>
        /\ dirCall.exc = "none"
        /\ dirCall.arg = StrUnknown =>
               \A i \in 1..Len(Entries(file)) :
                   MissingCountry(Entries(file)[i]) => Returned(i, dirCall.val)
        /\ dirCall.arg \in Range(get_countries(file).val) => Len(dirCall.val) >= 1

\* the file cannot be loaded as a registry: no file, not JSON, or JSON of
\* another structure
LoadingFailure(f) == f.kind \in {"missing", "garbage"} \/ ~ExpectedStructure(f)

\* listCountries and serversInCountry answer a loading failure with an empty
\* sequence and raise nothing
QueriesDegrade ==
    (LoadingFailure(file) /\ dirCall.op \in {"get_countries", "get_servers_by_country"}) =>
        dirCall.exc = "none" /\ dirCall.val = <<>>

\* C3 as stated: on any loading failure (no file, unparsable content, content
\* of another structure) loadRegistry raises, NotFoundError for the missing
\* path and MalformedDataError otherwise, and the two queries return an empty
\* sequence without raising.
C3_AnyLoadingFailureRaises ==
    /\ (LoadingFailure(file) /\ dirCall.op = "load_data_from_json") =>
           dirCall.exc = (IF file.kind = "missing" THEN "FileNotFoundError"
                          ELSE "JSONDecodeError")
    /\ QueriesDegrade

\* C3, amended: loadRegistry raises NotFoundError for a missing path and
\* MalformedDataError for content that is not JSON, with no result; JSON of
\* another structure (a top-level array, an object without "datacenter") is
\* returned as parsed without an error; in all three cases the two queries
\* return an empty sequence, print the failure or nothing, and raise nothing.
C3_LoadRaisesOnlyForMissingOrUnparsable ==
    /\ dirCall.op = "load_data_from_json" =>
           /\ file.kind = "missing" => dirCall.exc = "FileNotFoundError" /\ dirCall.val = None
           /\ file.kind = "garbage" => dirCall.exc = "JSONDecodeError" /\ dirCall.val = None
           /\ file.kind = "json" => dirCall.exc = "none" /\ dirCall.val = file.json
    /\ QueriesDegrade
    /\ (file.kind \in {"missing", "garbage"}
        /\ dirCall.op \in {"get_countries", "get_servers_by_country"}) => dirCall.out # <<>>

\* C3's case: the file is missing and serversInCountry was asked
C3_Witness ==
    /\ file.kind = "missing"
    /\ dirCall.op = "get_servers_by_country"
    /\ dirCall.exc = "none"
    /\ dirCall.val = <<>>

\* C6: listCountries returns no duplicates, in ascending order, and the
\* entries without a country contribute exactly one "Unknown", however many
\* they are; every other element is a country some entry stores.
C6_CountriesUniqueSortedOneUnknown ==
    dirCall.op = "get_countries" =>
        /\ dirCall.exc = "none"
        /\ LET v == dirCall.val
               es == Entries(file)
               stored == {es[i].country : i \in {j \in 1..Len(es) : ~MissingCountry(es[j])}}
               missing == {i \in 1..Len(es) : MissingCountry(es[i])}
           IN /\ \A i, j \in 1..Len(v) : i # j => v[i] # v[j]
              /\ \A i \in 1..(Len(v) - 1) : StrLess(v[i], v[i + 1])
              /\ Range(v) = stored \cup (IF missing = {} THEN {} ELSE {StrUnknown})
              /\ missing # {} => Cardinality({i \in 1..Len(v) : v[i] = StrUnknown}) = 1

\* C6's case: two entries without a country, one with the key absent and one
\* with the empty text, listed as the single "Unknown"
C6_Witness ==
    /\ dirCall.op = "get_countries"
    /\ Len(Entries(file)) >= 2
    /\ "country" \notin DOMAIN Entries(file)[1]
    /\ "country" \in DOMAIN Entries(file)[2]
    /\ Entries(file)[2].country = StrEmpty
    /\ dirCall.val = <<StrUnknown>>

\* the registry of the scenario: A1 in "Germany", B1 in "germany"
GermanyFile ==
    [kind |-> "json",
     json |-> [type |-> "object",
               dict |-> [datacenter |->
                   <<[name |-> "A1", ip |-> "1.2.3.4", country |-> StrGermany],
                     [name |-> "B1", ip |-> "5.6.7.8", country |-> StrGermanyLower]>>]]]

\* serversInCountry(path, "GERMANY") returns A1 and B1 on the scenario's registry
GermanyServers ==
    (file = GermanyFile /\ dirCall.op = "get_servers_by_country"
     /\ dirCall.arg = StrGermanyUpper) =>
        dirCall.val = <<Server("A1", "1.2.3.4"), Server("B1", "5.6.7.8")>>

\* C7 as stated: on the registry with "Germany" and "germany", listCountries
\* returns ["Germany"] alone and serversInCountry(path, "GERMANY") returns
\* A1 and B1.
C7_GermanyListedOnce ==
    /\ (file = GermanyFile /\ dirCall.op = "get_countries") => dirCall.val = <<StrGermany>>
    /\ GermanyServers

\* C7, amended: on that registry listCountries returns both spellings,
\* ["Germany", "germany"] (upper case sorts first), and
\* serversInCountry(path, "GERMANY") returns A1 and B1.
C7_GermanyListedPerSpelling ==
    /\ (file = GermanyFile /\ dirCall.op = "get_countries") =>
           dirCall.val = <<StrGermany, StrGermanyLower>>
    /\ GermanyServers

\* C7's case: listCountries was called on the scenario's registry
C7_Witness ==
    /\ file = GermanyFile
    /\ dirCall.op = "get_countries"
    /\ Len(dirCall.val) = 2

\* C8: an entry with a non-empty country is returned by serversInCountry
\* exactly when its whole country equals the query up to letter case; the
\* result keeps the registry's order, is the same for queries that differ in
\* case only, is empty when nothing matches, and no error is raised.
C8_WholeFieldCaseInsensitiveMatch ==
    dirCall.op = "get_servers_by_country" =>
        /\ dirCall.exc = "none"
        /\ LET es == Entries(file)
               q == dirCall.arg
               res == dirCall.val
               named == {i \in 1..Len(es) : ~MissingCountry(es[i])}
           IN /\ \A i \in named : Returned(i, res) <=> SameIgnoringCase(es[i].country, q)
              /\ \A k \in 1..(Len(res) - 1) : PositionOf(res[k]) < PositionOf(res[k + 1])
              /\ \A q2 \in Queries :
                     SameIgnoringCase(q, q2) => get_servers_by_country(file, q2).val = res
              /\ (q # StrEmpty /\ \A i \in named : ~SameIgnoringCase(es[i].country, q))
                     => res = <<>>

\* C8's case: "GERMANY" asked of a registry that stores "germany" and
\* "United States": one server comes back
C8_Witness ==
    /\ dirCall.op = "get_servers_by_country"
    /\ dirCall.arg = StrGermanyUpper
    /\ \E i, j \in 1..Len(Entries(file)) :
           /\ ~MissingCountry(Entries(file)[i]) /\ Entries(file)[i].country = StrGermanyLower
           /\ ~MissingCountry(Entries(file)[j]) /\ Entries(file)[j].country = StrUnitedStates
    /\ Len(dirCall.val) = 1

\* ------------------------------------------------------------------------
\* Properties of the probe (SpecProbe)
\* ------------------------------------------------------------------------

\* the address is set and is none of the sentinels
Configured(srv) == srv.ip_address \notin {None, "", "undefined", "0.0.0.0"}

\* the host family has a ping syntax
KnownFamily == osName \in {"posix", "nt"}

\* C2 as stated: on a family that is neither POSIX nor WINDOWS, probe of a
\* server with a configured address ends with UnsupportedPlatformError
\* (NotImplementedError) reaching the caller, not with false.
C2_UnsupportedPlatformPropagates ==
    (pingCall.op = "ping" /\ Configured(pingCall.self) /\ ~KnownFamily) =>
        pingCall.exc = "NotImplementedError"

\* C2, amended: on a family that is neither POSIX nor WINDOWS, probe of a
\* server with a configured address catches the UnsupportedPlatformError of
\* the command construction, prints it and returns false without starting a
\* process: no error reaches the caller, whose result is the one of a ping
\* utility that could not be started.
C2_UnsupportedPlatformReturnsFalse ==
    (pingCall.op = "ping" /\ Configured(pingCall.self) /\ ~KnownFamily) =>
        /\ pingCall.exc = "none"
        /\ pingCall.val = FALSE
        /\ pingCall.launched = 0
        /\ pingCall.command = <<>>
        /\ pingCall.out = <<"Error pinging">>

\* C2's case: a configured server was pinged on the family "java"
C2_Witness ==
    /\ pingCall.op = "ping"
    /\ osName = "java"
    /\ pingCall.self = Server("A1", "1.2.3.4")
    /\ pingCall.proc.launch = "ok"
    /\ pingCall.proc.returncode = 0

\* C4: on POSIX and WINDOWS, probe of a server with a configured address
\* returns true exactly when the ping command was started, ended within 30
\* seconds and exited with 0; a nonzero exit, a timeout and a utility that
\* cannot be started each give false, and none of them raises.
C4_TrueIffExitZeroInTime ==
    (pingCall.op = "ping" /\ Configured(pingCall.self) /\ KnownFamily
     /\ ~pingCall.proc.interrupt) =>
        /\ pingCall.exc = "none"
        /\ pingCall.val <=> (/\ pingCall.proc.launch = "ok"
                             /\ pingCall.proc.seconds <= 30
                             /\ pingCall.proc.returncode = 0)
        /\ pingCall.command = <<"ping", IF osName = "posix" THEN "-c" ELSE "-n", "6",
                                pingCall.self.ip_address>>

\* C4's case: the ping utility ran on WINDOWS and exited with 2 in time
C4_Witness ==
    /\ pingCall.op = "ping"
    /\ osName = "nt"
    /\ Configured(pingCall.self)
    /\ pingCall.proc.launch = "ok"
    /\ ~pingCall.proc.interrupt
    /\ pingCall.proc.seconds <= 30
    /\ pingCall.proc.returncode = 2
    /\ pingCall.val = FALSE

\* C5: probe of a server whose address is unset (None or ""), "undefined" or
\* "0.0.0.0" returns false, builds no command and starts no process, on
\* every family.
C5_SentinelAddressNeverProbed ==
    (pingCall.op = "ping" /\ ~Configured(pingCall.self)) =>
        /\ pingCall.exc = "none"
        /\ pingCall.val = FALSE
        /\ pingCall.command = <<>>
        /\ pingCall.launched = 0

\* C5's case: the server with address "0.0.0.0" was pinged on the family
\* "java" and no process has been started
C5_Witness ==
    /\ pingCall.op = "ping"
    /\ osName = "java"
    /\ pingCall.self.ip_address = "0.0.0.0"
    /\ pingCall.val = FALSE
    /\ spawned = 0

\* ------------------------------------------------------------------------
\* Properties of the platform identifier (SpecPlatform)
\* ------------------------------------------------------------------------

\* the label the claim expects for a platform version string
ExpectedWindowsLabel(version, label) ==
    LET build == py_int(LastComponent(version))
    IN IF build.exc # "none" THEN label = StrWindows
       ELSE IF build.val >= 22000
       THEN label = StrWindows11Build \o Digits(build.val) \o StrCloseParen
       ELSE label = StrWindows10Build \o Digits(build.val) \o StrCloseParen

\* C9: on WINDOWS, distribution and kernelVersion are the newer release label
\* for a trailing build number >= 22000, the prior release label for a lower
\* one, and the generic label "Windows" when the trailing component is not a
\* number.
C9_WindowsLabelByBuild ==
    osName = "nt" =>
        /\ osObj.state = "constructed" => ExpectedWindowsLabel(host.version, osObj.self.distro)
        /\ kernelCall.op = "get_kernel_version" =>
               kernelCall.exc = "none" /\ ExpectedWindowsLabel(host.version, kernelCall.val)

\* the helper utility fails: it cannot be started, runs longer than the 5
\* seconds, exits with a nonzero code or writes bytes that do not decode
HelperFails(proc) ==
    \/ proc.launch # "ok"
    \/ proc.seconds > 5
    \/ proc.returncode # 0
    \/ bytes_decode(proc.stdout).exc # "none"

\* C10: no failure of a helper utility leaves the platform identifier: the
\* construction never raises, on POSIX a failing distribution utility gives
\* "Unknown Linux" and a failing kernel-version utility gives the release
\* cached at construction.
C10_HelperFailuresDegrade ==
    /\ osObj.state # "raised"
    /\ (osName = "posix" /\ osObj.state = "constructed" /\ HelperFails(osObj.proc)) =>
           osObj.self.distro = StrUnknownLinux
    /\ (osName = "posix" /\ kernelCall.op = "get_kernel_version"
        /\ HelperFails(kernelCall.proc)) =>
           kernelCall.exc = "none" /\ kernelCall.val = osObj.self.info.release

\* ------------------------------------------------------------------------
\* Properties of the application (SpecApp)
\* ------------------------------------------------------------------------

\* C11: run() never ends with an unhandled exception: after initialize() it
\* reaches the main-menu prompt, and the loop ends only by the user's exit or
\* by a KeyboardInterrupt, each followed by one handle_exit.
C11_RunNeverEndsWithException ==
    app.pc # "main" =>
        /\ app.pc # "raised"
        /\ app.exc = "none"
        /\ app.menus >= 1
        /\ app.pc = "returned" => app.endedBy \in {"exit", "KeyboardInterrupt"} /\ app.exits = 1

====
